---------------------------- MODULE Spec2Model ----------------------------
(***************************************************************************)
(* Model of the risk-game scoring backend (backend/risk_feature.py,        *)
(* backend/arrow_pratt.py, backend/app.py).                                *)
(*                                                                         *)
(* Every scoring function is a pure function of its arguments, so one call *)
(* is one step: a Call action draws the arguments and records the call's   *)
(* outcome (returned value or raised exception) together with the list of  *)
(* functions the call went through.  The HTTP handler create_game is the   *)
(* one stateful operation: it appends to the module-level list _data.      *)
(*                                                                         *)
(* Numbers.  Scores are Python floats; the model keeps them as exact       *)
(* fractions [num, den] with den > 0.  The heuristic path divides by       *)
(* (x + 1e-9); that quotient is kept in fixed point, rounded down to       *)
(* 1/RatioUnit (see RatioEps).  rho values live on the integer grid; a     *)
(* float is [nan, v] so that Python's comparison rules for NaN (every      *)
(* comparison false) are kept by PyMin and PyMax.                          *)
(***************************************************************************)
EXTENDS Integers, Sequences, FiniteSets, TLC

VARIABLES pc, entry, args, result, response, _data, handled

vars == <<pc, entry, args, result, response, _data, handled>>

---------------------------------------------------------------------------
(* Bounds of the model *)

\* longest choice sequence handed to compute_risk / the heuristic path
MaxChoices == 10
\* longest choice sequence handed directly to the MLE entry points
MaxMleChoices == 3
\* largest |rho| bound handed to the estimator
MaxRho == 4
\* most requests the handler is followed through
MaxRequests == 1

---------------------------------------------------------------------------
(* Numeric helpers *)

Min(a, b) == IF a <= b THEN a ELSE b
Max(a, b) == IF a >= b THEN a ELSE b

\* resolution of the clipped quotient min(1, max(0, c / (d + 1e-9)))
RatioUnit == 10 ^ 4
\* resolution of a round score: 0.6 + 0.4 * ratio needs one more digit
ScoreUnit == 10 * RatioUnit

Frac(n, d) == [num |-> n, den |-> d]
Half == Frac(1, 2)
Zero == Frac(0, 1)
One == Frac(1, 1)

InUnitInterval(v) == v.den > 0 /\ 0 <= v.num /\ v.num <= v.den
IsHalf(v) == 2 * v.num = v.den
\* v = a / b for small a, b (b > 0)
IsFrac(v, a, b) == v.num * b = a * v.den

\* a Python float on the integer grid, or NaN
Num(v) == [nan |-> FALSE, v |-> v]
NaN == [nan |-> TRUE, v |-> 0]
PyLt(a, b) == ~a.nan /\ ~b.nan /\ a.v < b.v
\* builtin min(a, b): b only if b < a;  builtin max(a, b): b only if b > a
PyMin(a, b) == IF PyLt(b, a) THEN b ELSE a
PyMax(a, b) == IF PyLt(a, b) THEN b ELSE a

---------------------------------------------------------------------------
(* Outcome of a call *)

NoFloat == Num(0)

Return(v, calls) ==
    [kind |-> "return", exc |-> "none", value |-> v,
     rho_hat |-> NoFloat, A_w |-> Zero, calls |-> calls]

ReturnPair(rho, aw, calls) ==
    [kind |-> "return", exc |-> "none", value |-> Zero,
     rho_hat |-> rho, A_w |-> aw, calls |-> calls]

Raise(e, calls) ==
    [kind |-> "raise", exc |-> e, value |-> Zero,
     rho_hat |-> NoFloat, A_w |-> Zero, calls |-> calls]

NoResult ==
    [kind |-> "none", exc |-> "none", value |-> Zero,
     rho_hat |-> NoFloat, A_w |-> Zero, calls |-> <<>>]

Called(r, f) == \E i \in 1..Len(r.calls) : r.calls[i] = f

---------------------------------------------------------------------------
(* risk_feature.py: the scenario ladder *)

\* prob is kept in percent, so an expected value is in hundredths
Option(p, v) == [prob |-> p, value |-> v]
Scenario(i, s, hi) ==
    [id |-> i, safe_value |-> s, risky_options |-> <<Option(50, hi), Option(50, 0)>>]

GAME_SCENARIOS_PROPERTIES ==
    << Scenario(1, 10, 30), Scenario(2, 15, 30), Scenario(3, 20, 40),
       Scenario(4, 25, 40), Scenario(5, 30, 50), Scenario(6, 35, 50),
       Scenario(7, 40, 60), Scenario(8, 45, 60), Scenario(9, 50, 70),
       Scenario(10, 55, 70) >>

LadderLen == Len(GAME_SCENARIOS_PROPERTIES)

RECURSIVE SumExpected(_, _)
SumExpected(options, k) ==
    IF k = 0 THEN 0
    ELSE SumExpected(options, k - 1) + options[k].prob * options[k].value

\* sum of prob * value, in hundredths (prob is in percent)
calculate_expected_value(options) == SumExpected(options, Len(options))

\* min(1, max(0, c / (d + 1e-9))) in units of 1/RatioUnit, rounded down, for
\* integers c >= 0 and d >= 0 in hundredths: the quotient is just below c/d,
\* so an exact multiple of 1/RatioUnit rounds to the one before it.
RatioEps(c, d) ==
    IF c <= 0 THEN 0
    ELSE IF d = 0 THEN RatioUnit
    ELSE LET q == (RatioUnit * c) \div d
             below == IF (RatioUnit * c) % d = 0 THEN q - 1 ELSE q
         IN  Min(RatioUnit, below)

\* a bug that reads the two choice labels the other way round
RoundScoreSwapped(choice_made, scenario) ==
    LET safe_expected_value == 100 * scenario.safe_value
        risky_expected_value == calculate_expected_value(scenario.risky_options)
        certainty_equivalent == risky_expected_value - safe_expected_value
        round_score ==
            IF choice_made = "safe" THEN
                IF certainty_equivalent >= 0
                THEN 6 * RatioUnit + 4 * RatioEps(certainty_equivalent, safe_expected_value)
                ELSE ScoreUnit
            ELSE IF choice_made = "risky" THEN
                IF certainty_equivalent >= 0
                THEN 4 * RatioUnit - 4 * RatioEps(certainty_equivalent, risky_expected_value)
                ELSE 2 * RatioUnit
            ELSE 5 * RatioUnit
    IN  Max(0, Min(ScoreUnit, round_score))

\* the loop body of the heuristic: one round's score in units of 1/ScoreUnit
RoundScore(choice_made, scenario) ==
    LET safe_expected_value == 100 * scenario.safe_value
        risky_expected_value == calculate_expected_value(scenario.risky_options)
        certainty_equivalent == risky_expected_value - safe_expected_value
        round_score ==
            IF choice_made = "risky" THEN
                IF certainty_equivalent >= 0
                THEN 6 * RatioUnit + 4 * RatioEps(certainty_equivalent, safe_expected_value)
                ELSE ScoreUnit
            ELSE IF choice_made = "safe" THEN
                IF certainty_equivalent >= 0
                THEN 4 * RatioUnit - 4 * RatioEps(certainty_equivalent, risky_expected_value)
                ELSE 2 * RatioUnit
            ELSE 5 * RatioUnit
    IN  Max(0, Min(ScoreUnit, round_score))

RECURSIVE SumRoundScores(_, _, _)
SumRoundScores(choices, scenario_properties, k) ==
    IF k = 0 THEN 0
    ELSE SumRoundScores(choices, scenario_properties, k - 1)
            + RoundScore(choices[k], scenario_properties[k])

HEURISTIC == "calculate_risk_game_score_with_aversion_formula"

\* a bug that checks only the lengths and leaves the empty case to the
\* fallback at the end
HeuristicLengthOnly(choices, scenario_properties) ==
    IF Len(choices) # Len(scenario_properties)
    THEN Raise("ValueError", <<HEURISTIC>>)
    ELSE IF Len(choices) = 0
    THEN Return(Half, <<HEURISTIC>>)
    ELSE Return(Frac(SumRoundScores(choices, scenario_properties, Len(choices)),
                     Len(choices) * ScoreUnit), <<HEURISTIC>>)

calculate_risk_game_score_with_aversion_formula(choices, scenario_properties) ==
    IF Len(choices) = 0 \/ Len(choices) # Len(scenario_properties)
    THEN Raise("ValueError", <<HEURISTIC>>)
    ELSE IF Len(choices) = 0      \* "if not round_scores": never taken
    THEN Return(Half, <<HEURISTIC>>)
    ELSE Return(Frac(SumRoundScores(choices, scenario_properties, Len(choices)),
                     Len(choices) * ScoreUnit), <<HEURISTIC>>)

---------------------------------------------------------------------------
(* risk_feature.py: the closed-form rules *)

DefaultPrize == 100
DefaultMaxSafe == 20
DefaultTotal == 100

single_shot(choice) ==
    Return(IF choice = "risky" THEN One ELSE Zero, <<"single_shot">>)

\* list.index(x): the 0-based position of the first x, or -1 for ValueError
RECURSIVE IndexFrom(_, _, _)
IndexFrom(choices, x, k) ==
    IF k > Len(choices) THEN -1
    ELSE IF choices[k] = x THEN k - 1
    ELSE IndexFrom(choices, x, k + 1)

\* a bug that counts positions from 1
MultiShotOneBased(choices) ==
    LET found == IndexFrom(choices, "safe", 1)
        switch_index == IF found = -1 THEN Len(choices) ELSE found + 1
    IN  IF Len(choices) = 0 THEN Return(Zero, <<"multi_shot_logic">>)
        ELSE Return(Frac(switch_index, Len(choices)), <<"multi_shot_logic">>)

multi_shot_logic(choices) ==
    LET found == IndexFrom(choices, "safe", 1)
        switch_index == IF found = -1 THEN Len(choices) ELSE found
    IN  IF Len(choices) = 0 THEN Return(Zero, <<"multi_shot_logic">>)
        ELSE Return(Frac(switch_index, Len(choices)), <<"multi_shot_logic">>)

\* a bug that forgets the clipping
SliderUnclipped(certainty, prize) ==
    Return(Frac(prize - certainty, prize), <<"slider_question">>)

\* max(0.0, min(1.0, (prize - certainty) / prize)), for prize > 0
slider_question(certainty, prize) ==
    Return(Frac(Max(0, Min(prize, prize - certainty)), prize), <<"slider_question">>)

balloon_question(pumps, popped, max_safe) ==
    LET effective == pumps + (IF popped THEN 1 ELSE 0)
    IN  Return(Frac(Min(effective, max_safe), max_safe), <<"balloon_question">>)

budget_split(risky_tokens, total) ==
    Return(Frac(risky_tokens, total), <<"budget_split">>)

---------------------------------------------------------------------------
(* arrow_pratt.py: the estimator and the index *)

DefaultRhoLo == -4
DefaultRhoHi == 4
DefaultRhoBounds == <<Num(DefaultRhoLo), Num(DefaultRhoHi)>>

ESTIMATOR == "arrow_pratt_from_choices"
RISK_INDEX == "risk_index_from_choices"

\* What scipy's minimize does is outside this code: it either reports a
\* point res.x[0] with a success flag, or an exception leaves it (raised by
\* the optimizer or by the objective _choice_loglik).
OptPoint(x, ok) == [kind |-> "x", x |-> x, success |-> ok, exc |-> "none"]
OptRaise(e) == [kind |-> "raise", x |-> NoFloat, success |-> FALSE, exc |-> e]

RECURSIVE SumSafe(_, _)
SumSafe(scenarios, k) ==
    IF k = 0 THEN 0 ELSE SumSafe(scenarios, k - 1) + scenarios[k].safe_value

\* mean of the safe values, 1.0 for an empty ladder
WealthBase(scenarios) ==
    IF Len(scenarios) = 0 THEN One
    ELSE Frac(SumSafe(scenarios, Len(scenarios)), Len(scenarios))

\* rho_hat / max(wealth_base, 1e-6)
ArrowPrattCoefficient(rho_hat, wealth_base) ==
    IF wealth_base.num <= 0 THEN Frac(rho_hat.v * (10 ^ 6), 1)
    ELSE Frac(rho_hat.v * wealth_base.den, wealth_base.num)

\* a bug that clips from above only
ClipUpperOnly(x, rho_bounds) == PyMin(x, rho_bounds[2])

\* max(rho_bounds[0], min(rho_hat, rho_bounds[1]))
ClipRho(x, rho_bounds) == PyMax(rho_bounds[1], PyMin(x, rho_bounds[2]))

\* a bug that checks only for the empty list (zip would truncate)
EstimatorEmptyOnly(choices, scenarios, rho_bounds, opt) ==
    IF Len(choices) = 0
    THEN Raise("ValueError", <<ESTIMATOR>>)
    ELSE IF opt.kind = "raise"
    THEN Raise(opt.exc, <<ESTIMATOR>>)
    ELSE LET rho_hat == ClipRho(opt.x, rho_bounds)
         IN  ReturnPair(rho_hat,
                        ArrowPrattCoefficient(rho_hat, WealthBase(scenarios)),
                        <<ESTIMATOR>>)

arrow_pratt_from_choices(choices, scenarios, rho_bounds, opt) ==
    IF Len(choices) = 0 \/ Len(choices) # Len(scenarios)
    THEN Raise("ValueError", <<ESTIMATOR>>)
    ELSE IF opt.kind = "raise"
    THEN Raise(opt.exc, <<ESTIMATOR>>)
    \* "if not res.success" only logs a warning
    ELSE LET rho_hat == ClipRho(opt.x, rho_bounds)
         IN  ReturnPair(rho_hat,
                        ArrowPrattCoefficient(rho_hat, WealthBase(scenarios)),
                        <<ESTIMATOR>>)

\* 1.0 / (1.0 + math.exp(rho)) in units of 1/RatioUnit, rounded, on the grid
SigmoidNeg(rho) ==
    CASE rho <= -7 -> 9991
      [] rho = -6 -> 9975
      [] rho = -5 -> 9933
      [] rho = -4 -> 9820
      [] rho = -3 -> 9526
      [] rho = -2 -> 8808
      [] rho = -1 -> 7311
      [] rho = 0 -> 5000
      [] rho = 1 -> 2689
      [] rho = 2 -> 1192
      [] rho = 3 -> 474
      [] rho = 4 -> 180
      [] rho = 5 -> 67
      [] rho = 6 -> 25
      [] rho >= 7 -> 9

\* math.exp raises OverflowError above about 709.78
ExpOverflows(rho) == rho >= 710

\* the index once rho_hat is known; a NaN rho_hat gives a NaN index (den = 0)
IndexOf(rho_hat, calls) ==
    IF rho_hat.nan THEN Return(Frac(0, 0), calls)
    ELSE IF ExpOverflows(rho_hat.v) THEN Raise("OverflowError", calls)
    ELSE Return(Frac(SigmoidNeg(rho_hat.v), RatioUnit), calls)

\* a bug that catches ValueError only
RiskIndexValueErrorOnly(choices, scenarios, rho_bounds, opt) ==
    IF Len(choices) = 0 THEN Return(Half, <<RISK_INDEX>>)
    ELSE LET est == arrow_pratt_from_choices(choices, scenarios, rho_bounds, opt)
             calls == <<RISK_INDEX>> \o est.calls
         IN  IF est.kind = "raise"
             THEN IF est.exc = "ValueError" THEN Return(Half, calls)
                  ELSE Raise(est.exc, calls)
             ELSE IndexOf(est.rho_hat, calls)

risk_index_from_choices(choices, scenarios, rho_bounds, opt) ==
    IF Len(choices) = 0 THEN Return(Half, <<RISK_INDEX>>)
    ELSE LET est == arrow_pratt_from_choices(choices, scenarios, rho_bounds, opt)
             calls == <<RISK_INDEX>> \o est.calls
         IN  IF est.kind = "raise"      \* except ValueError / except Exception
             THEN Return(Half, calls)
             ELSE IndexOf(est.rho_hat, calls)

PRAT == "calculate_risk_game_score_with_prat"

calculate_risk_game_score_with_prat(choices, scenario_properties, opt) ==
    LET r == risk_index_from_choices(choices, scenario_properties, DefaultRhoBounds, opt)
    IN  [r EXCEPT !.calls = <<PRAT>> \o r.calls]

---------------------------------------------------------------------------
(* risk_feature.py: the dispatcher *)

KnownGames == {"single", "multiple", "slider", "balloon", "budget", "risk"}
ClosedFormGames == {"single", "multiple", "slider", "balloon", "budget"}

\* the optimizer report used where a call chain reaches the estimator
\* without the caller choosing one
OptConverged == OptPoint(Num(0), TRUE)

Via(f, r) == [r EXCEPT !.calls = <<f>> \o r.calls]

\* a bug that scores an unrecognized tag as neutral
ComputeRiskDefaulting(request_payload) ==
    LET game_type == request_payload.game
    IN  Via("compute_risk",
            CASE game_type = "single" -> single_shot(request_payload.choice)
              [] game_type = "multiple" -> multi_shot_logic(request_payload.choices)
              [] game_type = "slider" ->
                    slider_question(request_payload.certainty, DefaultPrize)
              [] game_type = "balloon" ->
                    balloon_question(request_payload.pumps, request_payload.popped,
                                     DefaultMaxSafe)
              [] game_type = "budget" ->
                    budget_split(request_payload.risky_tokens, DefaultTotal)
              [] game_type = "risk" ->
                    calculate_risk_game_score_with_aversion_formula(
                        request_payload.choices, GAME_SCENARIOS_PROPERTIES)
              [] OTHER -> Return(Half, <<>>))

\* the commented-out variant: the risk game goes to the MLE path
ComputeRiskPrat(request_payload) ==
    LET game_type == request_payload.game
    IN  Via("compute_risk",
            CASE game_type = "single" -> single_shot(request_payload.choice)
              [] game_type = "multiple" -> multi_shot_logic(request_payload.choices)
              [] game_type = "slider" ->
                    slider_question(request_payload.certainty, DefaultPrize)
              [] game_type = "balloon" ->
                    balloon_question(request_payload.pumps, request_payload.popped,
                                     DefaultMaxSafe)
              [] game_type = "budget" ->
                    budget_split(request_payload.risky_tokens, DefaultTotal)
              [] game_type = "risk" ->
                    calculate_risk_game_score_with_prat(
                        request_payload.choices, GAME_SCENARIOS_PROPERTIES, OptConverged)
              [] OTHER -> Raise("ValueError", <<>>))

compute_risk(request_payload) ==
    LET game_type == request_payload.game
    IN  Via("compute_risk",
            CASE game_type = "single" -> single_shot(request_payload.choice)
              [] game_type = "multiple" -> multi_shot_logic(request_payload.choices)
              [] game_type = "slider" ->
                    slider_question(request_payload.certainty, DefaultPrize)
              [] game_type = "balloon" ->
                    balloon_question(request_payload.pumps, request_payload.popped,
                                     DefaultMaxSafe)
              [] game_type = "budget" ->
                    budget_split(request_payload.risky_tokens, DefaultTotal)
              [] game_type = "risk" ->
                    calculate_risk_game_score_with_aversion_formula(
                        request_payload.choices, GAME_SCENARIOS_PROPERTIES)
              [] OTHER -> Raise("ValueError", <<>>))

---------------------------------------------------------------------------
(* Inputs *)

Choice == {"safe", "risky"}
ChoiceSeqs(n) == UNION {[1..k -> Choice] : k \in 0..n}

\* tags no branch of compute_risk knows ("ballon" is an older spelling)
UnknownGames == {"ballon", "lottery"}

CertaintyInputs == {-50, 0, 30, 100, 150}
PumpsInputs == {-1, 0, 19, 20, 25}
TokensInputs == {-10, 0, 30, 100, 150}
\* an extra key a caller may put in the payload to ask for a strategy
StrategyInputs == {"unset", "mle", "heuristic"}

Payload(g, c, cs, cert, p, pop, tok, strat) ==
    [game |-> g, choice |-> c, choices |-> cs, certainty |-> cert, pumps |-> p,
     popped |-> pop, risky_tokens |-> tok, strategy |-> strat]

NoPayload == Payload("none", "safe", <<>>, 0, 0, FALSE, 0, "unset")

\* request payloads: only the fields of the payload's own kind vary
Payloads ==
    {Payload("single", c, <<>>, 0, 0, FALSE, 0, "unset") : c \in Choice}
    \cup {Payload("multiple", "safe", cs, 0, 0, FALSE, 0, "unset") :
            cs \in ChoiceSeqs(MaxChoices)}
    \cup {Payload("slider", "safe", <<>>, x, 0, FALSE, 0, "unset") :
            x \in CertaintyInputs}
    \cup {Payload("balloon", "safe", <<>>, 0, x[1], x[2], 0, "unset") :
            x \in PumpsInputs \X BOOLEAN}
    \cup {Payload("budget", "safe", <<>>, 0, 0, FALSE, x, "unset") :
            x \in TokensInputs}
    \cup {Payload("risk", "safe", x[1], 0, 0, FALSE, 0, x[2]) :
            x \in ChoiceSeqs(MaxChoices) \X StrategyInputs}
    \cup {Payload(g, "safe", <<>>, 0, 0, FALSE, 0, "unset") : g \in UnknownGames}

Prefix(n) == SubSeq(GAME_SCENARIOS_PROPERTIES, 1, n)
\* scenario lists handed to the heuristic: the leading part of the ladder
ScenarioInputs == {Prefix(n) : n \in 0..LadderLen}
\* scenario lists handed directly to the estimator
MleScenarioInputs == {Prefix(n) : n \in 0..Min(LadderLen, MaxMleChoices + 1)}

RhoEndpoints == {Num(-MaxRho), Num(0), Num(MaxRho)}
\* includes lo > hi, which the code does not reject itself
RhoBoundsInputs == RhoEndpoints \X RhoEndpoints

OptExceptions == {"ValueError", "OverflowError"}
\* points inside, on and one step outside any bounds, NaN, or an exception
OptimizerReports ==
    {OptPoint(Num(x), ok) : x \in (-MaxRho - 1)..(MaxRho + 1), ok \in BOOLEAN}
    \cup {OptPoint(NaN, ok) : ok \in BOOLEAN}
    \cup {OptRaise(e) : e \in OptExceptions}

Args(p, cs, sc, b, o) ==
    [payload |-> p, choices |-> cs, scenarios |-> sc, rho_bounds |-> b, opt |-> o]

NoArgs == Args(NoPayload, <<>>, <<>>, DefaultRhoBounds, OptConverged)

NoResponse == [status |-> 0, risk_score |-> Zero, exc |-> "none"]

---------------------------------------------------------------------------
(* One call of an entry point *)

Init ==
    /\ pc = "idle"
    /\ entry = "none"
    /\ args = NoArgs
    /\ result = NoResult
    /\ response = NoResponse
    /\ _data = <<>>
    /\ handled = 0

CallComputeRisk ==
    /\ pc = "idle"
    /\ \E p \in Payloads :
        /\ args' = [NoArgs EXCEPT !.payload = p]
        /\ result' = compute_risk(p)
    /\ entry' = "compute_risk"
    /\ pc' = "done"
    /\ UNCHANGED <<response, _data, handled>>

CallHeuristic ==
    /\ pc = "idle"
    /\ \E cs \in ChoiceSeqs(MaxChoices), sc \in ScenarioInputs :
        /\ args' = [NoArgs EXCEPT !.choices = cs, !.scenarios = sc]
        /\ result' = calculate_risk_game_score_with_aversion_formula(cs, sc)
    /\ entry' = HEURISTIC
    /\ pc' = "done"
    /\ UNCHANGED <<response, _data, handled>>

CallArrowPratt ==
    /\ pc = "idle"
    /\ \E cs \in ChoiceSeqs(MaxMleChoices), sc \in MleScenarioInputs,
          b \in RhoBoundsInputs, o \in OptimizerReports :
        /\ args' = Args(NoPayload, cs, sc, b, o)
        /\ result' = arrow_pratt_from_choices(cs, sc, b, o)
    /\ entry' = ESTIMATOR
    /\ pc' = "done"
    /\ UNCHANGED <<response, _data, handled>>

CallRiskIndex ==
    /\ pc = "idle"
    /\ \E cs \in ChoiceSeqs(MaxMleChoices), sc \in MleScenarioInputs,
          b \in RhoBoundsInputs, o \in OptimizerReports :
        /\ args' = Args(NoPayload, cs, sc, b, o)
        /\ result' = risk_index_from_choices(cs, sc, b, o)
    /\ entry' = RISK_INDEX
    /\ pc' = "done"
    /\ UNCHANGED <<response, _data, handled>>

CallPrat ==
    /\ pc = "idle"
    /\ \E cs \in ChoiceSeqs(MaxMleChoices), sc \in MleScenarioInputs,
          o \in OptimizerReports :
        /\ args' = Args(NoPayload, cs, sc, DefaultRhoBounds, o)
        /\ result' = calculate_risk_game_score_with_prat(cs, sc, o)
    /\ entry' = PRAT
    /\ pc' = "done"
    /\ UNCHANGED <<response, _data, handled>>

Next ==
    \/ CallComputeRisk
    \/ CallHeuristic
    \/ CallArrowPratt
    \/ CallRiskIndex
    \/ CallPrat

Spec == Init /\ [][Next]_vars

---------------------------------------------------------------------------
(* app.py: the request handler *)

MultiShotItems == 4
SliderMax == 100
BudgetMax == 100
RiskMinLength == 1
RiskMaxLength == 10

\* the request models: what the discriminated union AnyGame lets through
AnyGame ==
    {p \in Payloads :
        /\ p.strategy = "unset"
        /\ \/ p.game = "single"
           \/ p.game = "multiple" /\ Len(p.choices) = MultiShotItems
           \/ p.game = "slider" /\ 0 <= p.certainty /\ p.certainty <= SliderMax
           \/ p.game = "balloon" /\ p.pumps >= 0
           \/ p.game = "budget" /\ 0 <= p.risky_tokens /\ p.risky_tokens <= BudgetMax
           \/ p.game = "risk" /\ RiskMinLength <= Len(p.choices)
                              /\ Len(p.choices) <= RiskMaxLength}

\* the names app.py imports from fastapi: FastAPI only, so the name
\* HTTPException is unbound where the handler uses it
FastapiImports == {"FastAPI"}

\* "raise HTTPException(status_code=..., detail=...)": evaluating the unbound
\* name raises NameError inside the except clause, and that leaves the handler
RaiseHTTPException(status_code) ==
    IF "HTTPException" \in FastapiImports
    THEN [status |-> status_code, risk_score |-> Zero, exc |-> "HTTPException"]
    ELSE [status |-> 500, risk_score |-> Zero, exc |-> "NameError"]

\* the handler's answer; an exception that is not an HTTPException reaches
\* the server as an unhandled error, answered with status 500
create_game_response(risk) ==
    IF risk.kind = "return"
    THEN [status |-> 200, risk_score |-> risk.value, exc |-> "none"]
    ELSE IF risk.exc = "ValueError"
    THEN RaiseHTTPException(400)
    ELSE RaiseHTTPException(500)

create_game ==
    /\ handled < MaxRequests
    /\ handled' = handled + 1
    /\ \E payload \in AnyGame :
        LET risk == compute_risk(payload)
        IN  /\ args' = [NoArgs EXCEPT !.payload = payload]
            /\ result' = risk
            /\ response' = create_game_response(risk)
            /\ _data' = IF risk.kind = "return"
                        THEN Append(_data, [id |-> Len(_data) + 1,
                                            game |-> payload.game,
                                            risk |-> risk.value])
                        ELSE _data
    /\ entry' = "create_game"
    /\ pc' = "idle"

NextApp == create_game

SpecApp == Init /\ [][NextApp]_vars

---------------------------------------------------------------------------
(* Properties *)

Lo == args.rho_bounds[1]
Hi == args.rho_bounds[2]
InputContractHolds == Len(args.choices) # 0 /\ Len(args.choices) = Len(args.scenarios)
RaisesValueError == result.kind = "raise" /\ result.exc = "ValueError"

\* C1: compute_risk raises ValueError for every request whose game tag is
\* none of single, multiple, slider, balloon, budget, risk; it returns no
\* score for such a tag.
C1_UnknownTagRaises ==
    (entry = "compute_risk" /\ args.payload.game \notin KnownGames)
        => RaisesValueError

C1_Witness ==
    /\ entry = "compute_risk"
    /\ args.payload.game = "ballon"
    /\ RaisesValueError

\* C2 as stated: for a closed-form game kind with the default prize, max_safe
\* and total, compute_risk returns a score in [0,1] for every input value.
C2_EveryInputInRange ==
    (entry = "compute_risk" /\ args.payload.game \in ClosedFormGames)
        => (result.kind = "return" /\ InUnitInterval(result.value))

\* C2 amended: for a closed-form game kind with the defaults, compute_risk
\* returns a score in [0,1] whenever the balloon pumps are not negative and
\* the budget tokens lie in [0, total]; slider values are clipped for every
\* certainty.
C2_InDomainInRange ==
    (/\ entry = "compute_risk"
     /\ args.payload.game \in ClosedFormGames
     /\ args.payload.game = "balloon" => args.payload.pumps >= 0
     /\ args.payload.game = "budget" =>
            (0 <= args.payload.risky_tokens /\ args.payload.risky_tokens <= DefaultTotal))
        => (result.kind = "return" /\ InUnitInterval(result.value))

C2_Witness ==
    /\ entry = "compute_risk"
    /\ args.payload.game = "slider"
    /\ args.payload.certainty > DefaultPrize
    /\ result.kind = "return"
    /\ IsFrac(result.value, 0, 1)

\* C3 as stated: the heuristic path returns the neutral score 0.5 when the
\* choice sequence is empty and raises nothing.
C3_EmptyReturnsHalf ==
    (entry = HEURISTIC /\ Len(args.choices) = 0)
        => (result.kind = "return" /\ IsHalf(result.value))

\* C3 amended: the heuristic path raises ValueError when the choice sequence
\* is empty, whatever the scenario list; it returns no score for empty input.
C3_EmptyRaises ==
    (entry = HEURISTIC /\ Len(args.choices) = 0) => RaisesValueError

C3_Witness ==
    /\ entry = HEURISTIC
    /\ Len(args.choices) = 0
    /\ Len(args.scenarios) = 0
    /\ RaisesValueError

\* C4: for every non-empty choice sequence whose length differs from the
\* number of scenarios, arrow_pratt_from_choices and the heuristic path raise
\* ValueError; compute_risk for a risk request with 1 to 9 choices raises it
\* too.
C4_MismatchRaises ==
    /\ (/\ entry \in {ESTIMATOR, HEURISTIC}
        /\ Len(args.choices) # 0
        /\ Len(args.choices) # Len(args.scenarios))
            => RaisesValueError
    /\ (/\ entry = "compute_risk"
        /\ args.payload.game = "risk"
        /\ Len(args.payload.choices) \in 1..(LadderLen - 1))
            => RaisesValueError

C4_Witness ==
    /\ entry = ESTIMATOR
    /\ Len(args.choices) = 2
    /\ Len(args.scenarios) = 3
    /\ args.opt.kind = "x"
    /\ RaisesValueError

C6_SwitchPoint ==
    (entry = "compute_risk" /\ args.payload.game = "multiple") =>
        LET cs == args.payload.choices
            n == Len(cs)
        IN  /\ result.kind = "return"
            /\ n = 0 => IsFrac(result.value, 0, 1)
            /\ (n > 0 /\ \A i \in 1..n : cs[i] # "safe") => IsFrac(result.value, 1, 1)
            /\ \A k \in 1..n :
                  (cs[k] = "safe" /\ \A j \in 1..(k - 1) : cs[j] # "safe")
                      => IsFrac(result.value, k - 1, n)

C6_Witness ==
    /\ entry = "compute_risk"
    /\ args.payload.game = "multiple"
    /\ args.payload.choices = <<"risky", "risky", "safe", "safe">>
    /\ IsFrac(result.value, 1, 2)

\* C7: in create_game every ValueError raised by compute_risk ends the
\* request with status 400, and every other exception with status 500.
C7_ValueErrorIs400 ==
    (entry = "create_game" /\ result.kind = "raise") =>
        IF result.exc = "ValueError"
        THEN response.status = 400
        ELSE response.status = 500

\* C8 as stated: for the risk game compute_risk takes the strategy the
\* request selects, the MLE path or the heuristic path.
C8_StrategySelectable ==
    (entry = "compute_risk" /\ args.payload.game = "risk") =>
        /\ args.payload.strategy = "mle" => Called(result, PRAT)
        /\ args.payload.strategy = "heuristic" => Called(result, HEURISTIC)

\* C8 amended: for the risk game compute_risk always takes the heuristic
\* path and never the MLE path, whatever the request selects; the MLE path
\* is reached only by calling calculate_risk_game_score_with_prat itself.
C8_AlwaysHeuristic ==
    /\ (entry = "compute_risk" /\ args.payload.game = "risk") =>
          /\ Called(result, HEURISTIC)
          /\ ~Called(result, PRAT)
          /\ ~Called(result, RISK_INDEX)
    /\ entry = PRAT => Called(result, RISK_INDEX)

C8_Witness ==
    /\ entry = "compute_risk"
    /\ args.payload.game = "risk"
    /\ args.payload.strategy = "mle"
    /\ Len(args.payload.choices) = LadderLen
    /\ result.kind = "return"
    /\ Called(result, HEURISTIC)

\* C9: for bounds lo <= hi and whatever point the optimizer reports,
\* converged or not, arrow_pratt_from_choices returns a rho_hat with
\* lo <= rho_hat <= hi.
C9_RhoHatInBounds ==
    (/\ entry = ESTIMATOR
     /\ InputContractHolds
     /\ Lo.v <= Hi.v
     /\ args.opt.kind = "x")
        => /\ result.kind = "return"
           /\ ~result.rho_hat.nan
           /\ Lo.v <= result.rho_hat.v
           /\ result.rho_hat.v <= Hi.v

C9_Witness ==
    /\ entry = ESTIMATOR
    /\ InputContractHolds
    /\ Lo.v < Hi.v
    /\ args.opt.kind = "x"
    /\ ~args.opt.success
    /\ ~args.opt.x.nan
    /\ args.opt.x.v < Lo.v
    /\ result.kind = "return"
    /\ result.rho_hat = Lo

\* C10: over the ten-scenario ladder, changing one round of a length-10
\* choice sequence from safe to risky strictly raises the heuristic score,
\* and every returned score lies in [0,1].
C10_RiskyScoresHigher ==
    (/\ entry = HEURISTIC
     /\ args.scenarios = GAME_SCENARIOS_PROPERTIES
     /\ Len(args.choices) = LadderLen)
        => /\ result.kind = "return"
           /\ InUnitInterval(result.value)
           /\ \A i \in 1..LadderLen :
                args.choices[i] = "safe" =>
                    LET bolder == calculate_risk_game_score_with_aversion_formula(
                                      [args.choices EXCEPT ![i] = "risky"],
                                      GAME_SCENARIOS_PROPERTIES)
                    IN  /\ bolder.kind = "return"
                        /\ bolder.value.den = result.value.den
                        /\ bolder.value.num > result.value.num

C10_Witness ==
    /\ entry = HEURISTIC
    /\ args.scenarios = GAME_SCENARIOS_PROPERTIES
    /\ Len(args.choices) = LadderLen
    /\ args.choices[1] = "risky"
    /\ args.choices[4] = "safe"
    /\ result.kind = "return"

=============================================================================
